---- MODULE Spec2Model ----
(***************************************************************************)
(* Model of src/call_tree.py: the gdb command "call-tree", which rebuilds  *)
(* the dynamic call tree of the debugged program by stepping it and        *)
(* comparing, at every stop event, the stack depth with the depth seen at  *)
(* the previous stop.                                                      *)
(*                                                                         *)
(* The program state is the fields of CallTreeCommand.  The host (gdb) is  *)
(* modelled by the target's stack, the list of callbacks connected to      *)
(* gdb.events.stop, the directives passed to gdb.execute that the host has *)
(* not answered yet, and the number of callbacks still to be called for    *)
(* the stop event being delivered.  Function names are resolved names;     *)
(* frames without a resolvable name are outside the model.                 *)
(*                                                                         *)
(* gdb.execute is a call into the host.  Whether the host carries out the  *)
(* directive, and delivers the stop event that answers it, before the call *)
(* returns or after the caller has returned is the host's choice; it is    *)
(* fixed for a behaviour (the variable nested) and both are covered.  In   *)
(* the first case the caller stays suspended at its gdb.execute line (the  *)
(* variable calls) while the callbacks of the answering stop event run,    *)
(* and goes on from that line when they have returned.                     *)
(*                                                                         *)
(* Host behaviour assumed otherwise: directives are answered oldest first, *)
(* each by one stop event; a stop event calls every callback connected     *)
(* when it is emitted, one after the other; the command is invoked only    *)
(* while no stop event is being delivered and no Python code is suspended; *)
(* a stop with no frame left is notified like any other stop; a directive  *)
(* given while the target has no frame is refused (gdb.error); starting    *)
(* the target again discards the directives addressed to the old process.  *)
(***************************************************************************)
EXTENDS Integers, Sequences, FiniteSets, TLC

\* ------------------------------------------------------------------ bounds
\* Largest number of frames on the target's stack.
MaxStack == 4
\* Largest number of stop events the host delivers in a behaviour.
MaxPauses == 6
\* Largest number of times the command is invoked in a behaviour.
MaxInvokes == 2

\* ------------------------------------------------------------ host values
\* Python's None, for a frame (gdb.newest_frame() without a stack, or the
\* field initial_frame before a session).  Real frames have id >= 1.
NoFrame == [id |-> 0, name |-> "None"]

\* Python's None for a node identifier (the parent of the root, and the
\* field current_parent before a session).
None == <<>>

\* The outermost function of the target.
EntryFunction == "main"
\* Functions the target can call.
Callees == {"foo", "bar"}
\* The function the user has set a breakpoint in.
BreakFunction == "foo"

\* The two commands the program passes to gdb.execute.
STEP == "step"
FINISH == "finish"

\* ------------------------------------------------------- argument parsing
\* A token is the sequence of its characters.  A character outside ASCII
\* is written as its code point: "U+0663" is ARABIC-INDIC DIGIT THREE,
\* "U+FF11" and "U+FF12" are FULLWIDTH DIGIT ONE and TWO, "U+00B3" is
\* SUPERSCRIPT THREE (a digit, but not a decimal one).
\* The decimal digits (Unicode category Nd) among the characters used.
Digits == {"0", "1", "2", "3", "4", "5", "6", "7", "8", "9",
           "U+0663", "U+FF11", "U+FF12"}

DigitValue(c) ==
    CASE c = "0" -> 0 [] c = "1" -> 1 [] c = "2" -> 2 [] c = "3" -> 3
      [] c = "4" -> 4 [] c = "5" -> 5 [] c = "6" -> 6 [] c = "7" -> 7
      [] c = "8" -> 8 [] c = "9" -> 9
      [] c = "U+0663" -> 3 [] c = "U+FF11" -> 1 [] c = "U+FF12" -> 2

\* The token "--depth", as its characters.
DepthOption == <<"-", "-", "d", "e", "p", "t", "h">>

\* Decimal digits separated by single underscores: the first and the last
\* character are digits and an underscore stands between two digits.
AllDigits(tok) ==
    /\ Len(tok) >= 1
    /\ tok[1] \in Digits
    /\ tok[Len(tok)] \in Digits
    /\ \A i \in 1..Len(tok) : tok[i] \in Digits \cup {"_"}
    /\ \A i \in 1..(Len(tok) - 1) : ~(tok[i] = "_" /\ tok[i + 1] = "_")

\* int(tok) succeeds: an optional sign followed by decimal digits that
\* single underscores may separate.  (int also strips white space around
\* the literal; a token of arg.split() has none.)
IsIntLiteral(tok) ==
    /\ Len(tok) >= 1
    /\ IF tok[1] \in {"-", "+"} THEN AllDigits(Tail(tok)) ELSE AllDigits(tok)

\* The base-10 value of the digits of tok; the underscores are skipped.
RECURSIVE DigitsValue(_)
DigitsValue(tok) ==
    IF tok = <<>> THEN 0
    ELSE IF tok[Len(tok)] = "_" THEN DigitsValue(SubSeq(tok, 1, Len(tok) - 1))
    ELSE 10 * DigitsValue(SubSeq(tok, 1, Len(tok) - 1)) + DigitValue(tok[Len(tok)])

\* int(tok) for a token int accepts.
IntValue(tok) ==
    IF tok[1] = "-" THEN 0 - DigitsValue(Tail(tok))
    ELSE IF tok[1] = "+" THEN DigitsValue(Tail(tok))
    ELSE DigitsValue(tok)

\* len(args) == 2 and args[0] == "--depth"
HasDepthOption(args) == Len(args) = 2 /\ args[1] = DepthOption

\* The argument lists the command is invoked with (after arg.split()).
ArgChoices ==
    { <<>>,
      <<DepthOption, <<"0">>>>,
      <<DepthOption, <<"3">>>>,
      <<DepthOption, <<"0", "_", "3">>>>,
      <<DepthOption, <<"U+0663">>>>,
      <<DepthOption, <<"-", "1">>>>,
      <<DepthOption, <<"1", "_">>>>,
      <<DepthOption, <<"U+00B3">>>>,
      <<DepthOption, <<"x">>>> }

\* -------------------------------------------------------------- the tree
\* A node identifier that ignores the counter.
NodeIdFixed(k) == <<"node_", 0>>

\* Node identifiers: "root" and f"node_{k}".
RootId == <<"root">>
NodeId(k) == <<"node_", k>>

\* treelib.Tree(): no node.
EmptyTree == [n \in {} |-> [tag |-> "", parent |-> None]]

\* Tree.create_node raises: the identifier is taken, a second root, or a
\* parent that is not in the tree.
CreateRaises(tree, nid, par) ==
    \/ nid \in DOMAIN tree
    \/ par = None /\ DOMAIN tree # {}
    \/ par # None /\ par \notin DOMAIN tree

\* Tree.create_node(tag, nid, parent=par) when it does not raise.
create_node(tree, tag, nid, par) ==
    [n \in DOMAIN tree \cup {nid} |->
        IF n = nid THEN [tag |-> tag, parent |-> par] ELSE tree[n]]

\* Tree.parent(nid): the identifier of the parent node, None for the root.
parent(tree, nid) == tree[nid].parent

\* ------------------------------------------------------------------ state
VARIABLES
    \* fields of CallTreeCommand
    max_depth, call_tree, current_depth, done, initial_frame, node_counter,
    current_parent,
    \* host: the target's stack (outermost frame first), the number of times
    \* stop_handler is connected to gdb.events.stop, the directives not yet
    \* answered, the callbacks still to call for the current stop event, the
    \* next fresh frame id
    stack, handlers, queue, notify, next_fid,
    \* host: whether gdb.execute returns after the stop event that answers
    \* its directive (TRUE) or before the directive is carried out (FALSE);
    \* the calls of invoke and stop_handler suspended inside gdb.execute,
    \* innermost last
    nested, calls,
    \* observation of the last step: the operation, the path it took, the
    \* directives it issued, the nodes it created, the handler's local
    \* previous_depth
    op, path, issued, created, previous_depth,
    \* observation of the session: directives issued and (function, depth)
    \* pairs seen by the handler since the last reset, calls of print_tree
    \* and calls of gdb.events.stop.disconnect since the last reset
    log, obs, rendered, unregistered,
    \* budget counters
    pauses, invokes

vars == <<max_depth, call_tree, current_depth, done, initial_frame,
          node_counter, current_parent, stack, handlers, queue, notify,
          next_fid, nested, calls, op, path, issued, created,
          previous_depth, log, obs, rendered, unregistered, pauses, invokes>>

fields == <<max_depth, call_tree, current_depth, done, initial_frame,
            node_counter, current_parent>>

\* gdb.newest_frame(): the innermost frame, None without a stack.
newest_frame(stk) == IF stk = <<>> THEN NoFrame ELSE stk[Len(stk)]

\* The check for a missing frame left out.
FrameMissingNever(frame) == FALSE

\* "not frame"
FrameMissing(frame) == frame = NoFrame

\* The walk of lines 71-73 from the frame at index i of the stack: older()
\* is the frame below, None below the outermost frame.
RECURSIVE Walk(_, _, _, _)
Walk(stk, i, ref, depth) ==
    IF i >= 1 /\ stk[i].id # ref.id
    THEN Walk(stk, i - 1, ref, depth + 1)
    ELSE depth

\* The counter started at 1 instead of 0.
DepthFromOne(stk, ref) == Walk(stk, Len(stk), ref, 1)

\* The depth of the innermost frame relative to the frame ref.
Depth(stk, ref) == Walk(stk, Len(stk), ref, 0)

\* gdb.events.stop.connect / disconnect(self.stop_handler)
connect(h) == h + 1
disconnect(h) == IF h > 0 THEN h - 1 ELSE h

\* A call suspended inside gdb.execute at line pc of the source, with its
\* locals previous_depth and function_name, and the callbacks the stop event
\* that called it has still to call.
Activation(pc, prev, name, rest) ==
    [pc |-> pc, previous_depth |-> prev, function_name |-> name,
     rest |-> rest]

\* The line of the gdb.execute that passes directive d at the end of
\* stop_handler.
ExecuteLine(d) == IF d = STEP THEN "108" ELSE "111"

\* __init__
Init ==
    /\ max_depth = 2
    /\ call_tree = EmptyTree
    /\ current_depth = 0
    /\ done = FALSE
    /\ initial_frame = NoFrame
    /\ node_counter = 0
    /\ current_parent = None
    /\ stack = <<>>
    /\ handlers = 0
    /\ queue = <<>>
    /\ notify = 0
    /\ next_fid = 1
    /\ nested \in BOOLEAN
    /\ calls = <<>>
    /\ op = "init"
    /\ path = "init"
    /\ issued = <<>>
    /\ created = {}
    /\ previous_depth = 0
    /\ log = <<>>
    /\ obs = <<>>
    /\ rendered = 0
    /\ unregistered = 0
    /\ pauses = 0
    /\ invokes = 0


\* ---------------------------------------------------------------- invoke
\* invoke(arg, from_tty), lines 21-55, for arg.split() = args.
invoke(args) ==
    /\ notify = 0
    /\ calls = <<>>
    /\ invokes < MaxInvokes
    /\ invokes' = invokes + 1
    /\ op' = "invoke"
    /\ created' = {}
    /\ UNCHANGED <<stack, notify, next_fid, nested, previous_depth, pauses>>
    /\ IF HasDepthOption(args) /\ ~IsIntLiteral(args[2])
       THEN \* lines 28-30: ValueError, nothing is reset
            /\ path' = "ValueError"
            /\ issued' = <<>>
            /\ UNCHANGED <<fields, handlers, queue, calls, log, obs, rendered,
                           unregistered>>
       ELSE LET frame == newest_frame(stack) IN
            \* lines 25-27
            /\ max_depth' = IF HasDepthOption(args) THEN IntValue(args[2])
                                                    ELSE max_depth
            \* lines 33-37
            /\ current_depth' = 0
            /\ done' = FALSE
            /\ node_counter' = 0
            /\ rendered' = 0
            /\ unregistered' = 0
            /\ obs' = <<>>
            \* line 40
            /\ initial_frame' = frame
            /\ IF FrameMissing(frame)
               THEN \* lines 41-43
                    /\ path' = "no initial frame"
                    /\ call_tree' = EmptyTree
                    /\ current_parent' = None
                    /\ issued' = <<>>
                    /\ log' = <<>>
                    /\ UNCHANGED <<handlers, queue, calls>>
               ELSE \* lines 46-55
                    /\ path' = "started"
                    /\ call_tree' = create_node(EmptyTree, frame.name, RootId, None)
                    /\ current_parent' = RootId
                    /\ handlers' = connect(handlers)
                    /\ issued' = <<STEP>>
                    /\ log' = <<STEP>>
                    /\ queue' = Append(queue, STEP)
                    \* line 55: invoke waits in gdb.execute for the stop
                    /\ calls' = IF nested
                                THEN <<Activation("55", 0, "", 0)>>
                                ELSE calls

\* ----------------------------------------------------------- stop_handler
\* lines 80-81: the retry of a step that changed no depth.
StallRetry(cur, prev) == IF cur = prev THEN <<STEP>> ELSE <<>>

\* The cap compared with <= instead of <.
NextDirectiveOffByOne(cur, md) ==
    IF cur = 0 THEN <<>>
    ELSE IF cur <= md THEN <<STEP>>
    ELSE <<FINISH>>

\* lines 104-111: the directive chosen at the end of the handler.
NextDirective(cur, md) ==
    IF cur = 0 THEN <<>>
    ELSE IF cur < md THEN <<STEP>>
    ELSE <<FINISH>>

\* lines 99-101: the cursor after a return.
Ascend(tree, cursor) ==
    IF parent(tree, cursor) # None THEN parent(tree, cursor) ELSE cursor

\* lines 84-101 raise: create_node refuses the node, or Tree.parent is
\* asked about an identifier that is not in the tree.
UpdateRaises(tree, cursor, nid, cur, prev) ==
    /\ cur # 0
    /\ \/ cur > prev /\ CreateRaises(tree, nid, cursor)
       \/ cur < prev /\ cursor \notin DOMAIN tree

\* A return that drops the node under the cursor from the tree.
TreeAfterDropping(tree, cursor, tag, nid, cur, prev) ==
    IF cur # 0 /\ cur > prev THEN create_node(tree, tag, nid, cursor)
    ELSE IF cur # 0 /\ cur < prev /\ cursor # RootId
    THEN [n \in DOMAIN tree \ {cursor} |-> tree[n]]
    ELSE tree

\* lines 90-94: the tree after the handler's update.
TreeAfter(tree, cursor, tag, nid, cur, prev) ==
    IF cur # 0 /\ cur > prev THEN create_node(tree, tag, nid, cursor) ELSE tree

\* The cursor set from the counter after its increment.
CursorAfterIncrement(tree, cursor, nid, cur, prev) ==
    IF cur = 0 THEN cursor
    ELSE IF cur > prev THEN <<nid[1], nid[2] + 1>>
    ELSE IF cur < prev THEN Ascend(tree, cursor)
    ELSE cursor

\* lines 95-101: the current-parent cursor after the handler's update.
CursorAfter(tree, cursor, nid, cur, prev) ==
    IF cur = 0 THEN cursor
    ELSE IF cur > prev THEN nid
    ELSE IF cur < prev THEN Ascend(tree, cursor)
    ELSE cursor

\* The call of stop_handler is over: the stop event that called it goes on
\* with the rest callbacks it has still to call, and the calls below stay
\* suspended.
HandlerEnds(rest, below) ==
    /\ notify' = rest
    /\ calls' = below

\* lines 84-111, run by a call of stop_handler whose locals are
\* previous_depth = prev and function_name = name, with self.current_depth
\* = cur, after the directives before were passed to gdb.execute by the same
\* step.  The gdb.execute of line 108 or 111 is refused without a frame; it
\* suspends the call when the host carries the directive out at once.
UpdateAndDirect(cur, prev, name, before, rest, below) ==
    LET nid  == NodeId(node_counter)
        next == NextDirective(cur, max_depth)
    IN
    IF UpdateRaises(call_tree, current_parent, nid, cur, prev)
    THEN \* the exception leaves the handler at line 94 or 99
         /\ path' = "raise"
         /\ node_counter' = IF cur > prev THEN node_counter + 1
                                         ELSE node_counter
         /\ issued' = before
         /\ created' = {}
         /\ log' = log \o before
         /\ queue' = queue \o before
         /\ HandlerEnds(rest, below)
         /\ UNCHANGED <<call_tree, current_parent, done, handlers,
                        rendered, unregistered>>
    ELSE /\ path' = IF cur = 0 THEN "root"
                    ELSE IF cur > prev THEN "call"
                    ELSE IF cur < prev THEN "return"
                    ELSE "stall"
         \* lines 84-89
         /\ done' = IF cur = 0 THEN TRUE ELSE done
         /\ handlers' = IF cur = 0 THEN disconnect(handlers) ELSE handlers
         /\ rendered' = IF cur = 0 THEN rendered + 1 ELSE rendered
         /\ unregistered' = IF cur = 0 THEN unregistered + 1
                                      ELSE unregistered
         \* lines 90-101
         /\ node_counter' = IF cur # 0 /\ cur > prev
                            THEN node_counter + 1 ELSE node_counter
         /\ call_tree' = TreeAfter(call_tree, current_parent, name, nid,
                                   cur, prev)
         /\ current_parent' = CursorAfter(call_tree, current_parent, nid,
                                          cur, prev)
         /\ created' = DOMAIN call_tree' \ DOMAIN call_tree
         \* lines 104-111
         /\ issued' = before \o next
         /\ log' = log \o issued'
         /\ IF next = <<>> \/ stack = <<>>
            THEN /\ queue' = queue \o before
                 /\ HandlerEnds(rest, below)
            ELSE /\ queue' = queue \o issued'
                 /\ IF nested
                    THEN /\ notify' = 0
                         /\ calls' = Append(below,
                                Activation(ExecuteLine(next[1]), prev, name,
                                           rest))
                    ELSE HandlerEnds(rest, below)

\* stop_handler(event), lines 57-111: the host calls the callback for the
\* stop event being delivered.  The step ends where the call returns, raises
\* or is suspended in a gdb.execute that the host carries out at once.
stop_handler ==
    /\ notify > 0
    /\ op' = "stop_handler"
    /\ UNCHANGED <<stack, next_fid, nested, pauses, invokes, max_depth,
                   initial_frame>>
    /\ IF done
       THEN \* lines 59-60
            /\ path' = "done"
            /\ issued' = <<>>
            /\ created' = {}
            /\ HandlerEnds(notify - 1, calls)
            /\ UNCHANGED <<call_tree, current_depth, done, node_counter,
                           current_parent, handlers, queue, previous_depth,
                           log, obs, rendered, unregistered>>
       ELSE IF FrameMissing(newest_frame(stack))
       THEN \* lines 62-65
            /\ path' = "no frame"
            /\ issued' = <<>>
            /\ created' = {}
            /\ HandlerEnds(notify - 1, calls)
            /\ UNCHANGED <<call_tree, current_depth, done, node_counter,
                           current_parent, handlers, queue, previous_depth,
                           log, obs, rendered, unregistered>>
       ELSE LET frame == newest_frame(stack)
                prev  == current_depth
                cur   == Depth(stack, initial_frame)
            IN
            \* lines 68-77
            /\ previous_depth' = prev
            /\ current_depth' = cur
            /\ obs' = Append(obs, <<frame.name, cur>>)
            /\ IF nested /\ StallRetry(cur, prev) # <<>>
               THEN \* lines 80-81: the call waits in gdb.execute
                    /\ path' = "retry"
                    /\ issued' = StallRetry(cur, prev)
                    /\ created' = {}
                    /\ log' = log \o issued'
                    /\ queue' = queue \o issued'
                    /\ notify' = 0
                    /\ calls' = Append(calls,
                           Activation("81", prev, frame.name, notify - 1))
                    /\ UNCHANGED <<call_tree, done, node_counter,
                                   current_parent, handlers, rendered,
                                   unregistered>>
               ELSE \* lines 80-111
                    UpdateAndDirect(cur, prev, frame.name,
                                    StallRetry(cur, prev), notify - 1, calls)

\* gdb.execute returns to the innermost suspended call: every callback of
\* the stop event that answered its directive has returned.  Lines 55, 108
\* and 111 end their function; after line 81 stop_handler goes on at line
\* 84 with its locals and the fields as the calls in between left them.
execute_returns ==
    /\ notify = 0
    /\ queue = <<>>
    /\ calls # <<>>
    /\ LET top   == calls[Len(calls)]
           below == SubSeq(calls, 1, Len(calls) - 1)
       IN
       /\ op' = "execute_returns"
       /\ UNCHANGED <<stack, next_fid, nested, pauses, invokes, max_depth,
                      initial_frame, current_depth, obs>>
       /\ IF top.pc # "81"
          THEN /\ path' = "end"
               /\ issued' = <<>>
               /\ created' = {}
               /\ HandlerEnds(top.rest, below)
               /\ UNCHANGED <<call_tree, done, node_counter, current_parent,
                              handlers, queue, previous_depth, log,
                              rendered, unregistered>>
          ELSE /\ previous_depth' = top.previous_depth
               /\ UpdateAndDirect(current_depth, top.previous_depth,
                                  top.function_name, <<>>, top.rest, below)

\* ------------------------------------------------------------------- host
\* A fresh frame of function f.
NewFrame(f) == [id |-> next_fid, name |-> f]

\* The stacks the target can be stopped with after the directive d is
\* carried out on the stack stk: "step" enters a call, stays in the frame or
\* returns through one or more frames; "finish" returns through one or more
\* frames.  Returning through every frame leaves no frame.
Outcomes(d, stk) ==
    { SubSeq(stk, 1, Len(stk) - k) : k \in 1..Len(stk) }
    \cup (IF d = STEP THEN {stk} ELSE {})
    \cup (IF d = STEP /\ Len(stk) < MaxStack
          THEN { Append(stk, NewFrame(f)) : f \in Callees } ELSE {})

\* The stop event is delivered to a copy of the list of connected callbacks.
Emit ==
    /\ notify' = handlers
    /\ pauses' = pauses + 1
    /\ issued' = <<>>
    /\ created' = {}
    /\ UNCHANGED <<fields, handlers, nested, calls, previous_depth, log, obs,
                   rendered, unregistered, invokes>>

\* The stacks a target just started stops with: in its entry function, or
\* at a breakpoint in a function the entry function called.
StartStacks ==
    { <<NewFrame(EntryFunction)>> }
    \cup { <<NewFrame(EntryFunction),
              [id |-> next_fid + 1, name |-> BreakFunction]>> }

\* The user starts the target, which stops.
HostRun ==
    /\ notify = 0
    /\ calls = <<>>
    /\ pauses < MaxPauses
    /\ stack = <<>>
    /\ \E s \in StartStacks :
          /\ stack' = s
          /\ next_fid' = next_fid + Len(s)
    /\ queue' = <<>>
    /\ op' = "HostRun"
    /\ path' = "run"
    /\ Emit

\* The host carries out the oldest unanswered directive and stops again.
HostResume ==
    /\ notify = 0
    /\ pauses < MaxPauses
    /\ stack # <<>>
    /\ queue # <<>>
    /\ \E s \in Outcomes(Head(queue), stack) :
          /\ stack' = s
          /\ next_fid' = IF Len(s) > Len(stack) THEN next_fid + 1 ELSE next_fid
    /\ queue' = Tail(queue)
    /\ op' = "HostResume"
    /\ path' = Head(queue)
    /\ Emit

Next ==
    \/ \E args \in ArgChoices : invoke(args)
    \/ stop_handler
    \/ execute_returns
    \/ HostRun
    \/ HostResume

Spec == Init /\ [][Next]_vars

\* ------------------------------------------- a target that always returns
\* A session is tracing: started and not done.
Tracing == initial_frame # NoFrame /\ ~done

\* The stacks after directive d for a target in which every function that
\* is entered returns: the calls and the lines without a call that the
\* target still runs are bounded by MaxPauses, after which it only returns,
\* one frame per directive, the reference frame and the outermost frame
\* included.
LiveOutcomes(d, stk) ==
    {SubSeq(stk, 1, Len(stk) - 1)}
    \cup (IF d = STEP /\ pauses < MaxPauses THEN {stk} ELSE {})
    \cup (IF d = STEP /\ pauses < MaxPauses /\ Len(stk) < MaxStack
          THEN { Append(stk, NewFrame(f)) : f \in Callees } ELSE {})

\* The host answers the oldest unanswered directive with a stop.
HostResumeLive ==
    /\ notify = 0
    /\ stack # <<>>
    /\ queue # <<>>
    /\ \E s \in LiveOutcomes(Head(queue), stack) :
          /\ stack' = s
          /\ next_fid' = IF Len(s) > Len(stack) THEN next_fid + 1 ELSE next_fid
    /\ queue' = Tail(queue)
    /\ op' = "HostResume"
    /\ path' = Head(queue)
    /\ Emit

\* The command invoked while no session is tracing and no directive is
\* unanswered.
InvokeIdle ==
    /\ handlers = 0
    /\ queue = <<>>
    /\ \E args \in ArgChoices : invoke(args)

LiveNext ==
    \/ InvokeIdle
    \/ stop_handler
    \/ execute_returns
    \/ HostRun
    \/ HostResumeLive

\* Every directive is answered, every callback of a stop event is called
\* and every gdb.execute returns.
LiveSpec ==
    /\ Init
    /\ [][LiveNext]_vars
    /\ WF_vars(HostResumeLive)
    /\ WF_vars(stop_handler)
    /\ WF_vars(execute_returns)

\* ----------------------------------------------------------------- claims
\* The steps that run lines of stop_handler: the call by the host, and the
\* return of a gdb.execute into a suspended call.
HandlerOps == {"stop_handler", "execute_returns"}

\* The step is a call of stop_handler that got past both early returns and
\* computed the depth (it reached line 75).
HandlerRan == op' = "stop_handler" /\ path' \notin {"done", "no frame"}

\* The step takes a call of stop_handler suspended at line 81 through lines
\* 84-111.
StalledCallResumes == op' = "execute_returns" /\ path' # "end"

\* A session has been started and not replaced by a failed start.
Started == initial_frame # NoFrame

\* C1: the handler call that observes depth 0 issues no directive and sets
\* the termination flag, disconnects the handler and renders the tree; this
\* happens once in the session; once the flag is set no line of the handler
\* issues a directive or changes the tree, the cursor or the depth.
C1_Termination ==
    [][ /\ (HandlerRan /\ current_depth' = 0) =>
              /\ issued' = <<>>
              /\ path' = "root"
        /\ (op' \in HandlerOps /\ path' = "root") =>
              /\ ~done /\ done'
              /\ handlers' = handlers - 1
              /\ unregistered = 0 /\ unregistered' = 1
              /\ rendered = 0 /\ rendered' = 1
        /\ (done /\ op' \in HandlerOps) =>
              /\ issued' = <<>>
              /\ UNCHANGED <<call_tree, current_parent, current_depth,
                             log, queue>> ]_vars

\* C2: with a maximum depth D >= 0, a handler call that creates a node has
\* observed a depth of at most D.
C2_DepthBoundedDescent ==
    (op \in HandlerOps /\ created # {} /\ max_depth >= 0)
        => current_depth <= max_depth

\* C3: a handler call that finds the depth equal to the previous depth
\* (depth 0 included) creates no node, keeps the cursor, does not set the
\* termination flag, does not disconnect, does not render, and issues
\* advance-into; when its gdb.execute returns it does none of these either.
C3_StalledStep ==
    [][ /\ (HandlerRan /\ current_depth' = current_depth) =>
              /\ call_tree' = call_tree
              /\ current_parent' = current_parent
              /\ done' = done
              /\ handlers' = handlers
              /\ rendered' = rendered
              /\ Len(issued') >= 1 /\ issued'[1] = STEP
        /\ StalledCallResumes =>
              /\ call_tree' = call_tree
              /\ current_parent' = current_parent
              /\ done' = done
              /\ handlers' = handlers
              /\ rendered' = rendered ]_vars

\* The observations foo/1, bar/2, foo/1, main/0 after a start in main.
FlatObservations ==
    << <<"foo", 1>>, <<"bar", 2>>, <<"foo", 1>>, <<"main", 0>> >>

\* The tree main -> foo -> bar.
FlatTree ==
    create_node(
        create_node(
            create_node(EmptyTree, "main", RootId, None),
            "foo", NodeId(0), RootId),
        "bar", NodeId(1), NodeId(0))

FlatScenario ==
    /\ Started
    /\ initial_frame.name = "main"
    /\ max_depth = 2
    /\ obs = FlatObservations

\* C4: with maximum depth 2, reference frame main and the observations
\* foo/1, bar/2, foo/1, main/0, the tree is main -> foo -> bar, the
\* directives issued are step, step, finish, step, and the session is done.
C4_FlatCalls ==
    FlatScenario =>
        /\ call_tree = FlatTree
        /\ log = <<STEP, STEP, FINISH, STEP>>
        /\ done
        /\ rendered = 1

C4_Witness == FlatScenario /\ op = "stop_handler" /\ handlers = 0

\* C5: no step other than the start of a new session removes a node of the
\* tree or changes its name or its parent.
C5_AppendOnly ==
    [][ op' # "invoke" =>
            \A n \in DOMAIN call_tree :
                n \in DOMAIN call_tree' /\ call_tree'[n] = call_tree[n] ]_vars

\* A return was observed with three nodes in the tree, all still there.
C5_Witness ==
    /\ op = "stop_handler" /\ path = "return"
    /\ Cardinality(DOMAIN call_tree) = 3
    /\ current_parent = NodeId(0)

Roots(tree) == {n \in DOMAIN tree : tree[n].parent = None}

\* C6: in a started session the tree has exactly one node without a parent,
\* named after the reference frame's function; every other node's parent is
\* in the tree, and was in it before the node was inserted; the cursor is a
\* node of the tree.
C6_RootedTree ==
    /\ [](Started =>
            /\ Roots(call_tree) = {RootId}
            /\ call_tree[RootId].tag = initial_frame.name
            /\ \A n \in DOMAIN call_tree \ {RootId} :
                   call_tree[n].parent \in DOMAIN call_tree
            /\ current_parent \in DOMAIN call_tree)
    /\ [][ (Started /\ op' \in HandlerOps) =>
              \A n \in DOMAIN call_tree' \ DOMAIN call_tree :
                  call_tree'[n].parent \in DOMAIN call_tree ]_vars

\* A started session whose tree has a grandchild of the root.
C6_Witness ==
    /\ Started
    /\ \E n \in DOMAIN call_tree :
          /\ call_tree[n].parent # None
          /\ call_tree[n].parent # RootId
    /\ current_parent # RootId

\* C7: a handler call that observes a depth greater than the previous one
\* creates exactly one node, with an identifier no node had, the name of the
\* active function and the cursor as its parent.
C7_IdentityBasedCreation ==
    [][ (HandlerRan /\ current_depth' > current_depth) =>
            \E n \in DOMAIN call_tree' :
                /\ n \notin DOMAIN call_tree
                /\ DOMAIN call_tree' = DOMAIN call_tree \cup {n}
                /\ call_tree'[n].parent = current_parent
                /\ call_tree'[n].tag = newest_frame(stack).name
                /\ current_parent' = n ]_vars

\* foo called foo: two nodes named foo, the first the parent of the second.
C7_Witness ==
    /\ op = "stop_handler" /\ path = "call"
    /\ NodeId(0) \in DOMAIN call_tree /\ NodeId(1) \in DOMAIN call_tree
    /\ call_tree[NodeId(0)].tag = "foo"
    /\ call_tree[NodeId(1)].tag = "foo"
    /\ call_tree[NodeId(1)].parent = NodeId(0)

\* C8: a handler call of a session that is tracing and finds no active
\* frame disconnects the handler, stops reacting to later stops, renders
\* the tree and issues no directive.
C8_LostFrameAborts ==
    [][ (Started /\ ~done /\ op' = "stop_handler" /\ path' = "no frame") =>
            /\ handlers' = handlers - 1
            /\ done'
            /\ rendered' = rendered + 1
            /\ issued' = <<>> ]_vars

\* The depth argument is an integer literal that is >= 0.
ValidDepth(tok) == IsIntLiteral(tok) /\ IntValue(tok) >= 0

\* C9: an invocation whose depth argument is not a non-negative integer
\* creates no root node, connects no handler and issues no directive.
C9_DepthValidation ==
    [][ \A args \in ArgChoices :
          (invoke(args) /\ HasDepthOption(args) /\ ~ValidDepth(args[2])) =>
              /\ call_tree' = call_tree
              /\ handlers' = handlers
              /\ issued' = <<>>
              /\ queue' = queue ]_vars

\* C10: an invocation made while the host has no frame connects no handler,
\* issues no directive and creates no root node.
C10_NoActiveFrame ==
    [][ (op' = "invoke" /\ stack = <<>>) =>
            /\ handlers' = handlers
            /\ issued' = <<>>
            /\ queue' = queue
            /\ (call_tree' = call_tree \/ call_tree' = EmptyTree) ]_vars

\* An invocation that found no frame and gave up at line 43.
C10_Witness ==
    /\ op = "invoke" /\ path = "no initial frame"
    /\ stack = <<>>
    /\ ~Started

\* C11: a session started without a depth option has maximum depth 2,
\* current depth 0, node counter 0, a cleared termination flag and a tree
\* that holds only its root, whatever the sessions before it did.
C11_FreshSession ==
    [][ (invoke(<<>>) /\ path' = "started") =>
            /\ max_depth' = 2
            /\ current_depth' = 0
            /\ node_counter' = 0
            /\ ~done'
            /\ DOMAIN call_tree' = {RootId} ]_vars

\* The positions of the reference frame on the stack.
RefIndex == {i \in 1..Len(stack) : stack[i].id = initial_frame.id}

\* The last step was a handler call that computed the depth.
Observed == op = "stop_handler" /\ path \notin {"done", "no frame"}

\* C12: when the reference frame is on the stack, the depth the handler
\* computes is the number of frames above it (0 when the active frame is
\* the reference frame); the handler changes neither the frames, the
\* reference frame nor the maximum depth.
C12_DepthTracker ==
    /\ [](Observed => \A i \in RefIndex : current_depth = Len(stack) - i)
    /\ [][ op' \in HandlerOps =>
              UNCHANGED <<stack, initial_frame, max_depth>> ]_vars

\* The handler computed depth 2 for a frame two callers above the reference.
C12_Witness ==
    /\ Observed
    /\ RefIndex # {}
    /\ current_depth = 2
    /\ Len(stack) = 3

\* C13: a handler call of a started session that walks the whole caller
\* chain without meeting the reference frame takes the depth as 0 and ends
\* the session: flag set, handler disconnected, no directive, no node.
C13_UnwindPastReference ==
    [][ (Started /\ HandlerRan /\ RefIndex = {}) =>
            /\ current_depth' = 0
            /\ done'
            /\ handlers' = handlers - 1
            /\ issued' = <<>>
            /\ call_tree' = call_tree ]_vars

\* A call of stop_handler is suspended in a gdb.execute.
HandlerInProgress == \E i \in 1..Len(calls) : calls[i].pc # "55"

\* C14: the start of a session issues exactly one directive, a handler call
\* at most one (none after its gdb.execute returned), at most one directive
\* is unanswered at any time, and the handler is not called while an
\* earlier call of it is in progress.
C14_OneDirectiveAtATime ==
    /\ []((op = "invoke" /\ path = "started") => Len(issued) = 1)
    /\ [](op = "stop_handler" => Len(issued) <= 1)
    /\ [](op = "execute_returns" => issued = <<>>)
    /\ [](Len(queue) <= 1)
    /\ [][ op' = "stop_handler" => ~HandlerInProgress ]_vars

Issues(d) == \E i \in 1..Len(issued) : issued[i] = d

\* C15: with maximum depth D >= 1, a handler call that observes a depth
\* d # 0 issues finish and no step when d >= D, and step and no finish
\* when d < D.
C15_DirectiveAtCap ==
    (Observed /\ max_depth >= 1 /\ current_depth # 0) =>
        IF current_depth >= max_depth
        THEN Issues(FINISH) /\ ~Issues(STEP)
        ELSE Issues(STEP) /\ ~Issues(FINISH)

\* C16: the handler is connected at most once at any time, and a session
\* that ends (termination or lost frame) disconnects it.
C16_SingleSubscription ==
    /\ [](handlers <= 1)
    /\ [][ (Started /\ ~done /\ op' = "stop_handler"
              /\ path' \in {"root", "no frame"}) =>
                 handlers' = handlers - 1 ]_vars

\* The cursor after k guarded parent lookups.
RECURSIVE AscendLevels(_, _, _)
AscendLevels(tree, cursor, k) ==
    IF k = 0 \/ cursor \notin DOMAIN tree \/ tree[cursor].parent = None
    THEN cursor
    ELSE AscendLevels(tree, tree[cursor].parent, k - 1)

\* C17: a handler call that observes the depth lowered by k >= 1 levels to
\* a non-zero depth moves the cursor k levels up the tree.
C17_MultiLevelReturn ==
    [][ (HandlerRan /\ current_depth' # 0 /\ current_depth' < current_depth) =>
            current_parent' =
                AscendLevels(call_tree, current_parent,
                             current_depth - current_depth') ]_vars

\* The depth seen before the i-th observation of the session.
DepthBefore(i) == IF i = 1 THEN 0 ELSE obs[i - 1][2]

\* Every depth observed in the session differs from the one before it by
\* at most one level.
UnitSteps ==
    \A i \in 1..Len(obs) :
        /\ obs[i][2] - DepthBefore(i) <= 1
        /\ DepthBefore(i) - obs[i][2] <= 1

\* The number of ancestors of node n.
RECURSIVE AncestorCount(_, _)
AncestorCount(tree, n) ==
    IF n \notin DOMAIN tree \/ tree[n].parent = None THEN 0
    ELSE 1 + AncestorCount(tree, tree[n].parent)

\* C18: in a started session that is still tracing and has seen the depth
\* change by at most one level per pause, the cursor has as many ancestors
\* as the current depth, and a node just created by a line of the handler
\* lies at that depth.
C18_CursorTracksDepth ==
    (Started /\ ~done /\ UnitSteps) =>
        /\ AncestorCount(call_tree, current_parent) = current_depth
        /\ op \in HandlerOps =>
              \A n \in created : AncestorCount(call_tree, n) = current_depth

\* C19: with a target in which every function returns and a host that
\* answers every directive, a tracing session eventually is done, with the
\* handler disconnected and the tree rendered.
C19_EventualCompletion ==
    Tracing ~> (done /\ handlers = 0 /\ rendered >= 1)

====
